---- MODULE Spec2Model ----
(***************************************************************************)
(* Offline-first reconciliation of the local store (products, invoices,    *)
(* invoice_items) with the remote server: src/utils/sync.ts over the       *)
(* sql.js adapter of src/db/database.web.ts.                               *)
(*                                                                         *)
(* Text values (server ids, names, id hints of a DTO) are strings, the     *)
(* local ids are integers, timestamps are the text the code stores, kept   *)
(* as the triple <<date, separator, time of day>>.  A JS number used as an *)
(* id is kept as its decimal text: SQLite compares and stores it the same  *)
(* way (INTEGER affinity of id, TEXT affinity of serverId).                *)
(***************************************************************************)
EXTENDS Integers, Sequences, FiniteSets, TLC

VARIABLES
  db,         \* the in-memory sql.js database: products, invoices, invoice_items
  persisted,  \* the copy saveDb put into IndexedDB
  now,        \* the wall clock, in half minutes
  pc,         \* where the sync session is
  sess,       \* the session's locals: snapshot or response, cursor, payload
  used,       \* server records received so far
  made,       \* rows created locally so far
  device,     \* the secure store of the device and the device ids given out
  other,      \* a second invocation running next to the session
  schema,     \* the sync columns of the tables, and where initSyncTables is
  probe,      \* what checkServerConnection returned last
  appLock     \* the state of AppLockProvider and the secure store under it

vars ==
  <<db, persisted, now, pc, sess, used, made, device, other, schema, probe, appLock>>

(* What the sync session leaves alone *)
aside == <<other, schema, probe, appLock>>

----------------------------------------------------------------------------
(* Bounds of the model *)

MaxRecords == 3
MaxItemRecords == 2
MaxClockRecords == 1
MaxLocal == 2
MaxTime == 7
TicksPerDay == 4
MaxFullRecords == 2
MaxTwoRecords == 2
MaxInitCalls == 2
MaxDeviceIds == 3
MaxOrderRecords == 3
MaxSessionRecords == 2
MaxAutoLock == 1

(* The clock counts half minutes: '-1 minute' of the dirty query *)
OneMinute == 2

(* The character between date and time: 'T' in toISOString(), ' ' in datetime() *)
SepT == 84
SepSpace == 32

Null == "NULL"
NoTime == <<>>

StartTime == OneMinute

----------------------------------------------------------------------------
(* Text and numbers *)

Digits == <<"1", "2", "3", "4", "5", "6", "7", "8", "9">>

(* A local id as the payload carries it *)
TextOf(n) == Digits[n]

(* What `id = ?` compares a bound text with: its integer value, and no row *)
(* id (0) when the text is no integer or the parameter is NULL             *)
IntOf(s) == IF \E n \in DOMAIN Digits : Digits[n] = s
            THEN CHOOSE n \in DOMAIN Digits : Digits[n] = s
            ELSE 0

(* new Date().toISOString() at clock t *)
Iso(t) == <<t \div TicksPerDay, SepT, t % TicksPerDay>>

(* datetime('now', '-1 minute') at clock t *)
DateTimeSql(t) == <<(t - OneMinute) \div TicksPerDay, SepSpace, (t - OneMinute) % TicksPerDay>>

(* The instant a stored timestamp text denotes *)
TimeOf(ts) == ts[1] * TicksPerDay + ts[3]

(* SQLite's text comparison x < y, on texts of equal layout *)
TextLess(x, y) ==
  \/ x[1] < y[1]
  \/ x[1] = y[1] /\ x[2] < y[2]
  \/ x[1] = y[1] /\ x[2] = y[2] /\ x[3] < y[3]

(* `_id || id` of a server record *)
ServerIdOf(r) == IF r._id # Null THEN r._id ELSE r.id

(* `item.productId?._id || item.productId` *)
ItemRef(item) == IF item.productId._id # Null THEN item.productId._id ELSE item.productId.plain

----------------------------------------------------------------------------
(* The tables *)

EmptyDb == [products |-> <<>>, invoices |-> <<>>, items |-> <<>>, itemSeq |-> 0]

(* The identity query without its `OR id = ?` *)
SelectWithoutHint(rows, sid, hint) ==
  SelectSeq(rows, LAMBDA r : sid # Null /\ r.serverId = sid)

(* SELECT * FROM products|invoices WHERE serverId = ? OR id = ?, in rowid order *)
SelectByIdentity(rows, sid, hint) ==
  SelectSeq(rows, LAMBDA r : (sid # Null /\ r.serverId = sid) \/ r.id = IntOf(hint))

(* SELECT id FROM invoices WHERE serverId = ? *)
SelectByServerId(rows, sid) ==
  SelectSeq(rows, LAMBDA r : sid # Null /\ r.serverId = sid)

(* The row the code takes, existing[0], as a local id; 0 when there is none *)
FirstId(rows) == IF Len(rows) > 0 THEN rows[1].id ELSE 0

Ok(d) == [db |-> d, ok |-> TRUE]
Failed(d) == [db |-> d, ok |-> FALSE]

(* The UPDATE of the product loop without its WHERE clause *)
UpdateProductEvery(d, id, r, t) ==
  [d EXCEPT !.products =
     [i \in DOMAIN @ |->
        [@[i] EXCEPT !.name = r.name, !.costPrice = r.costPrice,
                     !.sellingPrice = r.sellingPrice, !.quantity = r.quantity,
                     !.lowStockLevel = r.lowStockLevel,
                     !.syncedAt = Iso(t), !.serverId = ServerIdOf(r)]]]

(* UPDATE products SET name = ?, ... , syncedAt = ?, serverId = ? WHERE id = ? *)
UpdateProduct(d, id, r, t) ==
  [d EXCEPT !.products =
     [i \in DOMAIN @ |->
        IF @[i].id = id
        THEN [@[i] EXCEPT !.name = r.name, !.costPrice = r.costPrice,
                          !.sellingPrice = r.sellingPrice, !.quantity = r.quantity,
                          !.lowStockLevel = r.lowStockLevel,
                          !.syncedAt = Iso(t), !.serverId = ServerIdOf(r)]
        ELSE @[i]]]

(* The INSERT of the product loop without its syncedAt *)
InsertProductUnstamped(d, r, t) ==
  [d EXCEPT !.products =
     Append(@, [id |-> Len(@) + 1, name |-> r.name, costPrice |-> r.costPrice,
                sellingPrice |-> r.sellingPrice, quantity |-> r.quantity,
                lowStockLevel |-> r.lowStockLevel,
                createdAt |-> IF r.createdAt # NoTime THEN r.createdAt ELSE Iso(t),
                syncedAt |-> NoTime, serverId |-> ServerIdOf(r)])]

(* INSERT INTO products (...) VALUES (...): AUTOINCREMENT id, no row is ever deleted *)
InsertProduct(d, r, t) ==
  [d EXCEPT !.products =
     Append(@, [id |-> Len(@) + 1, name |-> r.name, costPrice |-> r.costPrice,
                sellingPrice |-> r.sellingPrice, quantity |-> r.quantity,
                lowStockLevel |-> r.lowStockLevel,
                createdAt |-> IF r.createdAt # NoTime THEN r.createdAt ELSE Iso(t),
                syncedAt |-> Iso(t), serverId |-> ServerIdOf(r)])]

(* One iteration of the product loop of pullFromServer.  name is NOT NULL: *)
(* a record without it makes the statement throw and changes nothing.      *)
ApplyProduct(d, r, t) ==
  LET existing == SelectByIdentity(d.products, ServerIdOf(r), r.id)
  IN IF r.name = Null THEN Failed(d)
     ELSE IF Len(existing) > 0
          THEN Ok(UpdateProduct(d, existing[1].id, r, t))
          ELSE Ok(InsertProduct(d, r, t))

(* UPDATE invoices SET totalAmount = ?, totalItems = ?, createdAt = ?, ... WHERE id = ? *)
UpdateInvoice(d, id, r, t) ==
  [d EXCEPT !.invoices =
     [i \in DOMAIN @ |->
        IF @[i].id = id
        THEN [@[i] EXCEPT !.totalAmount = r.totalAmount, !.totalItems = r.totalItems,
                          !.createdAt = r.createdAt,
                          !.syncedAt = Iso(t), !.serverId = ServerIdOf(r)]
        ELSE @[i]]]

(* INSERT INTO invoices (...) VALUES (...) *)
InsertInvoice(d, r, t) ==
  [d EXCEPT !.invoices =
     Append(@, [id |-> Len(@) + 1, totalAmount |-> r.totalAmount,
                totalItems |-> r.totalItems,
                createdAt |-> IF r.createdAt # NoTime THEN r.createdAt ELSE Iso(t),
                syncedAt |-> Iso(t), serverId |-> ServerIdOf(r)])]

(* DELETE FROM invoice_items WHERE invoiceId = ? *)
DeleteItems(d, invoiceId) ==
  [d EXCEPT !.items = SelectSeq(@, LAMBDA it : it.invoiceId # invoiceId)]

(* The item loop that inserts every item, found or not *)
InsertItemsUnresolved(d, invoiceId, its) ==
  [d EXCEPT !.itemSeq = @ + Len(its),
            !.items = @ \o [k \in DOMAIN its |->
                              [id |-> d.itemSeq + k, invoiceId |-> invoiceId,
                               productId |-> FirstId(SelectByIdentity(d.products,
                                                       ItemRef(its[k]), ItemRef(its[k]))),
                               quantity |-> its[k].quantity, price |-> its[k].price]]]

(* The item loop: the product is looked up by serverId or id, the first    *)
(* row found is taken, and an item whose product is not found is skipped.  *)
RECURSIVE InsertItems(_, _, _)
InsertItems(d, invoiceId, its) ==
  IF its = <<>> THEN d
  ELSE LET ref == ItemRef(Head(its))
           localProduct == FirstId(SelectByIdentity(d.products, ref, ref))
           d1 == IF localProduct # 0
                 THEN [d EXCEPT !.itemSeq = @ + 1,
                                !.items = Append(@, [id |-> d.itemSeq + 1,
                                                     invoiceId |-> invoiceId,
                                                     productId |-> localProduct,
                                                     quantity |-> Head(its).quantity,
                                                     price |-> Head(its).price])]
                 ELSE d
       IN InsertItems(d1, invoiceId, Tail(its))

(* The local invoice the items of a server invoice go to *)
LocalInvoiceId(d0, d1, r) ==
  LET existing == SelectByIdentity(d0.invoices, ServerIdOf(r), r.id)
  IN IF Len(existing) > 0 THEN existing[1].id
     ELSE FirstId(SelectByServerId(d1.invoices, ServerIdOf(r)))

(* The item loop without the DELETE before it *)
AppendItems(d, invoiceId, its) == InsertItems(d, invoiceId, its)

(* The items of a server invoice replace the local ones *)
ReplaceItems(d, invoiceId, its) == InsertItems(DeleteItems(d, invoiceId), invoiceId, its)

(* A record without `items` taken for one with an empty list *)
CarriesItemsAlways(r) == TRUE

(* `serverInvoice.items && Array.isArray(serverInvoice.items)` *)
CarriesItems(r) == r.hasItems

(* The invoice loop that throws on an item whose product is not found *)
ApplyInvoiceStrict(d, r, t) ==
  IF r.hasItems /\ \E k \in DOMAIN r.items :
                    FirstId(SelectByIdentity(d.products, ItemRef(r.items[k]),
                                             ItemRef(r.items[k]))) = 0
  THEN Failed(d)
  ELSE Ok(d)

(* One iteration of the invoice loop of pullFromServer.  The UPDATE binds  *)
(* the record's createdAt as it is: without it the NOT NULL column rejects *)
(* the statement.                                                          *)
ApplyInvoice(d, r, t) ==
  LET existing == SelectByIdentity(d.invoices, ServerIdOf(r), r.id)
      d1 == IF Len(existing) > 0 THEN UpdateInvoice(d, existing[1].id, r, t)
            ELSE InsertInvoice(d, r, t)
      localInvoiceId == LocalInvoiceId(d, d1, r)
  IN IF Len(existing) > 0 /\ r.createdAt = NoTime THEN Failed(d)
     ELSE IF CarriesItems(r) /\ localInvoiceId # 0
          THEN Ok(ReplaceItems(d1, localInvoiceId, r.items))
          ELSE Ok(d1)

----------------------------------------------------------------------------
(* The push side *)

(* The dirty rule with datetime('now') in place of datetime('now', '-1 minute') *)
DirtyWithoutWindow(row, t) ==
  row.syncedAt = NoTime \/ TextLess(row.syncedAt, DateTimeSql(t + OneMinute))

(* syncedAt IS NULL OR syncedAt < datetime('now', '-1 minute') *)
Dirty(row, t) == row.syncedAt = NoTime \/ TextLess(row.syncedAt, DateTimeSql(t))

(* SELECT * FROM products|invoices WHERE <dirty> *)
SelectDirty(rows, t) == SelectSeq(rows, LAMBDA r : Dirty(r, t))

(* productsForApi that names a row by its server id when it has one *)
ProductForApiByServerId(p) ==
  [_id |-> p.serverId, id |-> IF p.serverId # Null THEN p.serverId ELSE TextOf(p.id),
   name |-> p.name, costPrice |-> p.costPrice,
   sellingPrice |-> p.sellingPrice, quantity |-> p.quantity,
   lowStockLevel |-> p.lowStockLevel, createdAt |-> p.createdAt]

(* productsForApi *)
ProductForApi(p) ==
  [_id |-> p.serverId, id |-> TextOf(p.id), name |-> p.name, costPrice |-> p.costPrice,
   sellingPrice |-> p.sellingPrice, quantity |-> p.quantity,
   lowStockLevel |-> p.lowStockLevel, createdAt |-> p.createdAt]

(* SELECT name FROM products WHERE id = ?, `product?.name || 'Unknown'` *)
ProductName(d, id) ==
  LET found == SelectSeq(d.products, LAMBDA p : p.id = id)
  IN IF Len(found) > 0 THEN found[1].name ELSE "Unknown"

(* itemsWithNames *)
ItemForApi(d, invoice, item) ==
  [productId |-> IF invoice.serverId # Null THEN TextOf(item.productId) ELSE Null,
   productName |-> ProductName(d, item.productId),
   quantity |-> item.quantity, price |-> item.price]

(* invoicesWithItems *)
InvoiceForApi(d, invoice) ==
  LET its == SelectSeq(d.items, LAMBDA it : it.invoiceId = invoice.id)
  IN [_id |-> invoice.serverId, id |-> TextOf(invoice.id),
      totalAmount |-> invoice.totalAmount, totalItems |-> invoice.totalItems,
      createdAt |-> invoice.createdAt,
      items |-> [k \in DOMAIN its |-> ItemForApi(d, invoice, its[k])]]

(* The body of POST /sync/push *)
PushPayload(d, t) ==
  LET ps == SelectDirty(d.products, t)
      is == SelectDirty(d.invoices, t)
  IN [products |-> [k \in DOMAIN ps |-> ProductForApi(ps[k])],
      invoices |-> [k \in DOMAIN is |-> InvoiceForApi(d, is[k])]]

(* The stamping UPDATE that also sets createdAt *)
MarkSyncedAndCreated(rows, r, t) ==
  [i \in DOMAIN rows |->
     IF rows[i].id = IntOf(r.id)
     THEN [rows[i] EXCEPT !.syncedAt = Iso(t), !.serverId = ServerIdOf(r),
                          !.createdAt = Iso(t)]
     ELSE rows[i]]

(* UPDATE products|invoices SET syncedAt = ?, serverId = ? WHERE id = ? *)
MarkSynced(rows, r, t) ==
  [i \in DOMAIN rows |->
     IF rows[i].id = IntOf(r.id)
     THEN [rows[i] EXCEPT !.syncedAt = Iso(t), !.serverId = ServerIdOf(r)]
     ELSE rows[i]]

----------------------------------------------------------------------------
(* What the server may send *)

ServerIds == {"a", "b"}
Hints == {"1"}

(* A record names itself by `_id`, by `id`, or by `_id` with the numeric   *)
(* `id` it was exported with                                               *)
RecordIds(sids, ids) ==
  {i \in [_id : sids \cup {Null}, id : ids \cup {Null}] : i._id # Null \/ i.id # Null}

ProductFields(names) ==
  {[name |-> n, costPrice |-> 3, sellingPrice |-> 4, quantity |-> 50,
    lowStockLevel |-> 5, createdAt |-> Iso(0)] : n \in names}

ProductDTOs(sids, ids, names) ==
  {i @@ f : i \in RecordIds(sids, ids), f \in ProductFields(names)}

ItemA == [productId |-> [_id |-> "a", plain |-> Null], quantity |-> 2, price |-> 5]
ItemB == [productId |-> [_id |-> Null, plain |-> "1"], quantity |-> 1, price |-> 7]

NoItems == {[hasItems |-> FALSE, items |-> <<>>]}

ItemLists ==
  NoItems \cup
  {[hasItems |-> TRUE, items |-> s] : s \in {<<>>, <<ItemA>>, <<ItemB>>, <<ItemA, ItemB>>}}

InvoiceFields(dates) ==
  {[totalAmount |-> 10, totalItems |-> 2, createdAt |-> c] : c \in dates}

InvoiceDTOs(sids, ids, dates, lists) ==
  {(i @@ f) @@ l : i \in RecordIds(sids, ids), f \in InvoiceFields(dates), l \in lists}

(* The snapshots of the identity runs: products of every shape, plain invoices *)
PullProducts == ProductDTOs(ServerIds, Hints, {"New", Null})
PullInvoices == InvoiceDTOs({"a"}, {}, {Iso(0), NoTime}, NoItems)

(* The snapshots of the item runs: one product, invoices with item lists *)
ItemRunProducts == ProductDTOs({"a"}, {}, {"New"})
ItemRunInvoices == InvoiceDTOs({"a"}, Hints, {Iso(0)}, ItemLists)

(* The snapshots of the clock runs *)
ClockProducts == ProductDTOs({"a"}, {}, {"New"})
ClockInvoices == InvoiceDTOs({"a"}, {}, {Iso(0)}, NoItems)

(* What the server answers a push with: the server id as `_id` next to the *)
(* local id the payload carried, or one of the two alone                   *)
ResponseProducts == ProductDTOs({"a"}, Hints \cup {"a"}, {"New"})
ResponseInvoices == InvoiceDTOs({"a"}, Hints, {Iso(0)}, NoItems)

(* The answer that carries both, as the item and clock runs get it *)
EchoProducts == {r \in ResponseProducts : r._id # Null /\ r.id \in Hints}
EchoInvoices == {r \in ResponseInvoices : r._id # Null /\ r.id \in Hints}

----------------------------------------------------------------------------
(* The sync session *)

NoSnapshot == [products |-> <<>>, invoices |-> <<>>]

(* No session is running *)
NoSession ==
  [op |-> "none", data |-> NoSnapshot, i |-> 1, j |-> 1, t0 |-> 0,
   payload |-> NoSnapshot, txBegin |-> EmptyDb, prev |-> EmptyDb,
   step |-> "none", err |-> "none", full |-> FALSE, pulled |-> 0, deviceId |-> 0,
   noInvoices |-> FALSE]

(* A device that has never synced: SecureStore works and holds no id *)
NewDevice == [status |-> "ok", stored |-> 0, made |-> 0, sent |-> {}]

(* The columns initSyncTables adds *)
SyncColumns ==
  {<<"products", "syncedAt">>, <<"products", "serverId">>,
   <<"invoices", "syncedAt">>, <<"invoices", "serverId">>}

(* The ALTER TABLE statements of initSyncTables, in their order *)
AlterOrder ==
  <<<<"products", "syncedAt">>, <<"products", "serverId">>,
    <<"invoices", "syncedAt">>, <<"invoices", "serverId">>>>

(* The tables as initDatabase creates them, no initSyncTables running or run *)
NewSchema ==
  [columns |-> SyncColumns, at |-> 0, before |-> SyncColumns, raised |-> FALSE, calls |-> 0]

(* The tables of a database file that was made before the sync columns *)
LegacySchema == [NewSchema EXCEPT !.columns = {}, !.before = {}]

NoOther == [pc |-> "idle", sess |-> NoSession]

(* checkServerConnection has not been called *)
NoProbe == [called |-> FALSE, returned |-> FALSE, raised |-> FALSE]

(* const PIN_LENGTH = 4 *)
PIN_LENGTH == 4

(* The autoLockMinutes of "never", and of a device that stores none *)
NoAutoLock == -1

(* An empty secure store; the absent auto-lock key is kept as the -1 the   *)
(* provider reads it as                                                    *)
NoStore == [pin |-> FALSE, biometric |-> FALSE, autoLock |-> NoAutoLock]

(* AppLockProvider at its first render, on native, over an empty store.    *)
(* lastBackgroundAt 0 is the null of the ref.  appState is what AppState   *)
(* reported last; leftAt, op, arg and wasLocked record the last call, for  *)
(* the properties.                                                         *)
NewAppLock ==
  [isLocked |-> TRUE, hasPin |-> FALSE, useBiometric |-> FALSE, isReady |-> FALSE,
   autoLockMinutes |-> NoAutoLock, lastBackgroundAt |-> 0,
   store |-> NoStore, web |-> FALSE, appState |-> "active",
   leftAt |-> 0, op |-> "none", arg |-> 0, wasLocked |-> TRUE]

Init ==
  /\ db = EmptyDb
  /\ persisted = EmptyDb
  /\ now = StartTime
  /\ pc = "idle"
  /\ sess = NoSession
  /\ used = 0
  /\ made = 0
  /\ device = NewDevice
  /\ other = NoOther
  /\ schema = NewSchema
  /\ probe = NoProbe
  /\ appLock = NewAppLock

(* runAsync ends with saveDb(): the database is exported to IndexedDB *)
SaveDb(d) == d

(* The catch of withTransactionAsync: the database is loaded again from    *)
(* what IndexedDB holds                                                    *)
Rollback(d, saved) == saved

(* getDeviceId: the id SecureStore holds; a new one, stored, when it holds  *)
(* none; a new one that is not stored when SecureStore cannot be imported, *)
(* read ("down") or written ("nowrite").  A new id is the text of          *)
(* Date.now() and Math.random(): the made-th id made on the device.  When  *)
(* setItemAsync throws, the id made for it is dropped and another is made. *)
GetDeviceId(dev) ==
  IF dev.status # "down" /\ dev.stored # 0
  THEN [id |-> dev.stored, dev |-> dev]
  ELSE IF dev.status = "ok"
       THEN [id |-> dev.made + 1,
             dev |-> [dev EXCEPT !.made = @ + 1, !.stored = dev.made + 1]]
       ELSE IF dev.status = "nowrite"
            THEN [id |-> dev.made + 2, dev |-> [dev EXCEPT !.made = @ + 2]]
            ELSE [id |-> dev.made + 1, dev |-> [dev EXCEPT !.made = @ + 1]]

(* The model stops making device ids at MaxDeviceIds *)
CanGetDeviceId(dev) == GetDeviceId(dev).dev.made <= MaxDeviceIds

(* A product is added on the device: not yet synced, no server id *)
CreateProduct ==
  /\ pc = "idle"
  /\ made < MaxLocal
  /\ LET d == [db EXCEPT !.products =
                 Append(@, [id |-> Len(@) + 1, name |-> "Old", costPrice |-> 1,
                            sellingPrice |-> 2, quantity |-> 9, lowStockLevel |-> 0,
                            createdAt |-> Iso(now), syncedAt |-> NoTime,
                            serverId |-> Null])]
     IN /\ db' = d
        /\ persisted' = SaveDb(d)
  /\ made' = made + 1
  /\ UNCHANGED <<now, pc, sess, used, device, aside>>

(* A sale of one product is recorded on the device *)
CreateInvoice ==
  /\ pc = "idle"
  /\ made < MaxLocal
  /\ \E k \in DOMAIN db.products :
       LET inv == Len(db.invoices) + 1
           d == [db EXCEPT
                   !.invoices = Append(@, [id |-> inv, totalAmount |-> 2, totalItems |-> 1,
                                           createdAt |-> Iso(now), syncedAt |-> NoTime,
                                           serverId |-> Null]),
                   !.itemSeq = @ + 1,
                   !.items = Append(@, [id |-> db.itemSeq + 1, invoiceId |-> inv,
                                        productId |-> db.products[k].id,
                                        quantity |-> 1, price |-> 2])]
       IN /\ db' = d
          /\ persisted' = SaveDb(d)
  /\ made' = made + 1
  /\ UNCHANGED <<now, pc, sess, used, device, aside>>

(* pullFromServer, called directly or by fullSync: GET /sync/all answers   *)
(* with a snapshot, the device id is read, the transaction begins          *)
Fetched(PD, ID, max, full) ==
  /\ pc = "idle"
  /\ CanGetDeviceId(device)
  /\ \E np \in 0..(max - used) : \E ni \in 0..(max - used - np) :
       \E ps \in [1..np -> PD] : \E is \in [1..ni -> ID] :
         /\ used' = used + np + ni
         /\ sess' = [NoSession EXCEPT !.op = "pull",
                                      !.data = [products |-> ps, invoices |-> is],
                                      !.t0 = now, !.txBegin = db, !.prev = db,
                                      !.full = full,
                                      !.deviceId = GetDeviceId(device).id]
  /\ device' = GetDeviceId(device).dev
  /\ pc' = "pullTx"
  /\ UNCHANGED <<db, persisted, now, made, aside>>

(* GET /sync/all fails, the error is wrapped and thrown *)
FetchFailed(full) ==
  /\ pc = "idle"
  /\ sess' = [NoSession EXCEPT !.op = "pull", !.t0 = now, !.txBegin = db, !.prev = db,
                               !.err = "network", !.full = full]
  /\ pc' = "failed"
  /\ UNCHANGED <<db, persisted, now, used, made, device, aside>>

(* pullFromServer is called and the server answers *)
PullFetch(PD, ID, max) == Fetched(PD, ID, max, FALSE)

(* pullFromServer is called and the request fails *)
PullFetchFails == FetchFailed(FALSE)

(* fullSync is called: its pullFromServer gets the answer of the server *)
FullSyncFetch(PD, ID, max) == Fetched(PD, ID, max, TRUE)

(* fullSync is called and the request of its pull fails *)
FullSyncFetchFails == FetchFailed(TRUE)

(* The outcome of one statement batch inside withTransactionAsync: saved   *)
(* when it went through, the catch path when it threw                      *)
TxStep(r, what) ==
  IF r.ok
  THEN /\ db' = r.db
       /\ persisted' = SaveDb(r.db)
       /\ pc' = pc
       /\ sess' = [sess EXCEPT !.prev = db, !.step = what,
                               !.i = IF what = "product" THEN @ + 1 ELSE @,
                               !.j = IF what = "invoice" THEN @ + 1 ELSE @]
  ELSE /\ db' = Rollback(r.db, persisted)
       /\ persisted' = persisted
       /\ pc' = "failed"
       /\ sess' = [sess EXCEPT !.prev = db, !.step = what, !.err = "database"]

(* pullFromServer: the next product of the snapshot *)
PullProduct ==
  /\ pc = "pullTx"
  /\ sess.i <= Len(sess.data.products)
  /\ TxStep(ApplyProduct(db, sess.data.products[sess.i], now), "product")
  /\ UNCHANGED <<now, used, made, device, aside>>

(* pullFromServer: the next invoice of the snapshot, with its items *)
PullInvoice ==
  /\ pc = "pullTx"
  /\ sess.i > Len(sess.data.products)
  /\ sess.j <= Len(sess.data.invoices)
  /\ TxStep(ApplyInvoice(db, sess.data.invoices[sess.j], now), "invoice")
  /\ UNCHANGED <<now, used, made, device, aside>>

(* The callback of withTransactionAsync returned: saveDb, and the caller gets the result *)
Commit(tx) ==
  /\ pc = tx
  /\ sess.i > Len(sess.data.products)
  /\ sess.j > Len(sess.data.invoices)
  /\ ~sess.noInvoices
  /\ persisted' = SaveDb(db)
  /\ pc' = "done"
  /\ sess' = [sess EXCEPT !.step = "commit"]
  /\ UNCHANGED <<db, now, used, made, device, aside>>

PullCommit == Commit("pullTx")

(* pushToServer begins: the device id is read, the dirty rows are read and *)
(* POST /sync/push is sent with them and the device id                     *)
Selected(full, pulled) ==
  /\ CanGetDeviceId(device)
  /\ sess' = [NoSession EXCEPT !.op = "push", !.t0 = now, !.payload = PushPayload(db, now),
                               !.txBegin = db, !.prev = db,
                               !.full = full, !.pulled = pulled,
                               !.deviceId = GetDeviceId(device).id]
  /\ device' = [GetDeviceId(device).dev EXCEPT !.sent = @ \cup {GetDeviceId(device).id}]
  /\ pc' = "pushWait"
  /\ UNCHANGED <<db, persisted, now, used, made, aside>>

(* pushToServer is called *)
PushSelect ==
  /\ pc = "idle"
  /\ Selected(FALSE, 0)

(* The fullSync that calls pushToServer without awaiting its pull *)
FullSyncPushEarly ==
  /\ pc = "pullTx"
  /\ sess.full
  /\ Selected(TRUE, Len(sess.data.products) + Len(sess.data.invoices))

(* fullSync: its pull has returned, pushToServer is called *)
FullSyncPush ==
  /\ pc = "done"
  /\ sess.op = "pull"
  /\ sess.full
  /\ Selected(TRUE, Len(sess.data.products) + Len(sess.data.invoices))

(* pushToServer: the server answers, the transaction begins *)
PushRespond(PD, ID, max) ==
  /\ pc = "pushWait"
  /\ \E np \in 0..(max - used) : \E ni \in 0..(max - used - np) :
       \E ps \in [1..np -> PD] : \E is \in [1..ni -> ID] :
         /\ used' = used + np + ni
         /\ sess' = [sess EXCEPT !.data = [products |-> ps, invoices |-> is],
                                 !.txBegin = db, !.prev = db]
  /\ pc' = "pushTx"
  /\ UNCHANGED <<db, persisted, now, made, device, aside>>

(* pushToServer: the server answers 2xx with a body that has `products`    *)
(* and no `invoices`; the transaction begins                               *)
PushRespondWithoutInvoices(PD, max) ==
  /\ pc = "pushWait"
  /\ \E np \in 0..(max - used) : \E ps \in [1..np -> PD] :
       /\ used' = used + np
       /\ sess' = [sess EXCEPT !.data = [products |-> ps, invoices |-> <<>>],
                               !.txBegin = db, !.prev = db, !.noInvoices = TRUE]
  /\ pc' = "pushTx"
  /\ UNCHANGED <<db, persisted, now, made, device, aside>>

(* The failing push that has stamped the rows it sent before the answer *)
PushFailsAfterStamp ==
  /\ pc = "pushWait"
  /\ sess' = [sess EXCEPT !.err = "network"]
  /\ pc' = "failed"
  /\ db' = [db EXCEPT !.products = [i \in DOMAIN @ |-> [@[i] EXCEPT !.syncedAt = Iso(now)]]]
  /\ persisted' = SaveDb(db')
  /\ UNCHANGED <<now, used, made, device, aside>>

(* pushToServer: POST /sync/push fails, the error is wrapped and thrown *)
PushFails ==
  /\ pc = "pushWait"
  /\ sess' = [sess EXCEPT !.err = "network"]
  /\ pc' = "failed"
  /\ UNCHANGED <<db, persisted, now, used, made, device, aside>>

(* pushToServer: the next product of the response *)
PushProduct ==
  /\ pc = "pushTx"
  /\ sess.i <= Len(sess.data.products)
  /\ TxStep(Ok([db EXCEPT !.products = MarkSynced(@, sess.data.products[sess.i], now)]),
            "product")
  /\ UNCHANGED <<now, used, made, device, aside>>

(* pushToServer: the next invoice of the response *)
PushInvoice ==
  /\ pc = "pushTx"
  /\ sess.i > Len(sess.data.products)
  /\ sess.j <= Len(sess.data.invoices)
  /\ TxStep(Ok([db EXCEPT !.invoices = MarkSynced(@, sess.data.invoices[sess.j], now)]),
            "invoice")
  /\ UNCHANGED <<now, used, made, device, aside>>

(* pushToServer: `for (const invoice of result.invoices)` on a body that   *)
(* has no `invoices` throws inside the transaction, after the product loop *)
PushInvoicesThrow ==
  /\ pc = "pushTx"
  /\ sess.i > Len(sess.data.products)
  /\ sess.noInvoices
  /\ TxStep(Failed(db), "invoice")
  /\ UNCHANGED <<now, used, made, device, aside>>

PushCommit == Commit("pushTx")

(* fullSync: the value it resolves with once its push has returned *)
FullSyncResult(s) == [pulled |-> s.pulled, pushed |-> 0]

(* The promise of the session settles and its locals are dropped *)
Return ==
  /\ pc \in {"done", "failed"}
  /\ ~(pc = "done" /\ sess.op = "pull" /\ sess.full)
  /\ pc' = "idle"
  /\ sess' = NoSession
  /\ UNCHANGED <<db, persisted, now, used, made, device, aside>>

(* A second call of pullFromServer or pushToServer, made while the session *)
(* is suspended at an await: the same code on the same database, with      *)
(* locals of its own                                                       *)
InProgress == pc \in {"pullTx", "pushWait", "pushTx"}

OtherPull(PD, ID, max) ==
  /\ InProgress
  /\ other.pc = "idle"
  /\ CanGetDeviceId(device)
  /\ \E np \in 0..(max - used) : \E ni \in 0..(max - used - np) :
       \E ps \in [1..np -> PD] : \E is \in [1..ni -> ID] :
         /\ used' = used + np + ni
         /\ other' = [pc |-> "pullTx",
                      sess |-> [NoSession EXCEPT !.op = "pull",
                                  !.data = [products |-> ps, invoices |-> is],
                                  !.t0 = now, !.txBegin = db, !.prev = db,
                                  !.deviceId = GetDeviceId(device).id]]
  /\ device' = GetDeviceId(device).dev
  /\ UNCHANGED <<db, persisted, now, pc, sess, made, schema, probe, appLock>>

OtherPush ==
  /\ InProgress
  /\ other.pc = "idle"
  /\ CanGetDeviceId(device)
  /\ other' = [pc |-> "pushWait",
               sess |-> [NoSession EXCEPT !.op = "push", !.t0 = now,
                           !.payload = PushPayload(db, now),
                           !.txBegin = db, !.prev = db,
                           !.deviceId = GetDeviceId(device).id]]
  /\ device' = [GetDeviceId(device).dev EXCEPT !.sent = @ \cup {GetDeviceId(device).id}]
  /\ UNCHANGED <<db, persisted, now, pc, sess, used, made, schema,
                 probe, appLock>>

OtherPushRespond(PD, ID, max) ==
  /\ other.pc = "pushWait"
  /\ \E np \in 0..(max - used) : \E ni \in 0..(max - used - np) :
       \E ps \in [1..np -> PD] : \E is \in [1..ni -> ID] :
         /\ used' = used + np + ni
         /\ other' = [pc |-> "pushTx",
                      sess |-> [other.sess EXCEPT !.data = [products |-> ps, invoices |-> is],
                                                 !.txBegin = db, !.prev = db]]
  /\ UNCHANGED <<db, persisted, now, pc, sess, made, device, schema,
                 probe, appLock>>

(* Its next statement batch: the next record of its snapshot or response *)
OtherStatement ==
  /\ other.pc \in {"pullTx", "pushTx"}
  /\ \/ other.sess.i <= Len(other.sess.data.products)
     \/ other.sess.j <= Len(other.sess.data.invoices)
  /\ LET o == other.sess
         what == IF o.i <= Len(o.data.products) THEN "product" ELSE "invoice"
         r == IF other.pc = "pullTx"
              THEN IF what = "product" THEN ApplyProduct(db, o.data.products[o.i], now)
                   ELSE ApplyInvoice(db, o.data.invoices[o.j], now)
              ELSE IF what = "product"
                   THEN Ok([db EXCEPT !.products = MarkSynced(@, o.data.products[o.i], now)])
                   ELSE Ok([db EXCEPT !.invoices = MarkSynced(@, o.data.invoices[o.j], now)])
     IN IF r.ok
        THEN /\ db' = r.db
             /\ persisted' = SaveDb(r.db)
             /\ other' = [other EXCEPT !.sess.prev = db, !.sess.step = what,
                             !.sess.i = IF what = "product" THEN @ + 1 ELSE @,
                             !.sess.j = IF what = "invoice" THEN @ + 1 ELSE @]
        ELSE /\ db' = Rollback(r.db, persisted)
             /\ persisted' = persisted
             /\ other' = [other EXCEPT !.pc = "failed", !.sess.prev = db,
                             !.sess.step = what, !.sess.err = "database"]
  /\ UNCHANGED <<now, pc, sess, used, made, device, schema, probe, appLock>>

(* Its transaction ends: saveDb *)
OtherCommit ==
  /\ other.pc \in {"pullTx", "pushTx"}
  /\ other.sess.i > Len(other.sess.data.products)
  /\ other.sess.j > Len(other.sess.data.invoices)
  /\ persisted' = SaveDb(db)
  /\ other' = [other EXCEPT !.pc = "done", !.sess.step = "commit"]
  /\ UNCHANGED <<db, now, pc, sess, used, made, device, schema,
                 probe, appLock>>

(* Its request fails *)
OtherFails ==
  /\ InProgress
  /\ other.pc \in {"idle", "pushWait"}
  /\ other' = [pc |-> "failed",
               sess |-> IF other.pc = "idle"
                        THEN [NoSession EXCEPT !.op = "pull", !.t0 = now, !.txBegin = db,
                                               !.prev = db, !.err = "network"]
                        ELSE [other.sess EXCEPT !.err = "network"]]
  /\ UNCHANGED <<db, persisted, now, pc, sess, used, made, device,
                 schema, probe, appLock>>

(* Its promise settles *)
OtherReturn ==
  /\ other.pc \in {"done", "failed"}
  /\ other' = NoOther
  /\ UNCHANGED <<db, persisted, now, pc, sess, used, made, device,
                 schema, probe, appLock>>

(* expo-secure-store stops or starts working: it cannot be imported or     *)
(* read ("down"), it cannot be written ("nowrite"), or it works ("ok")     *)
SecureStoreChanges ==
  /\ \E st \in {"ok", "nowrite", "down"} :
       /\ st # device.status
       /\ device' = [device EXCEPT !.status = st]
  /\ UNCHANGED <<db, persisted, now, pc, sess, used, made, aside>>

(* initSyncTables is called: openDatabase *)
InitSyncTablesCall ==
  /\ schema.at = 0
  /\ schema.calls < MaxInitCalls
  /\ schema' = [schema EXCEPT !.at = 1, !.before = schema.columns]
  /\ UNCHANGED <<db, persisted, now, pc, sess, used, made, device,
                 other, probe, appLock>>

(* An ALTER TABLE ... ADD COLUMN of initSyncTables with no try around it *)
AlterTableUncaught ==
  /\ schema.at \in DOMAIN AlterOrder
  /\ IF AlterOrder[schema.at] \in schema.columns
     THEN /\ schema' = [schema EXCEPT !.at = 0, !.raised = TRUE, !.calls = @ + 1]
          /\ persisted' = persisted
     ELSE /\ schema' = [schema EXCEPT !.columns = @ \cup {AlterOrder[schema.at]},
                                      !.at = IF schema.at < Len(AlterOrder) THEN @ + 1 ELSE 0,
                                      !.calls = IF schema.at < Len(AlterOrder) THEN @ ELSE @ + 1]
          /\ persisted' = SaveDb(db)
  /\ UNCHANGED <<db, now, pc, sess, used, made, device, other, probe,
                 appLock>>

(* initSyncTables: its next ALTER TABLE ... ADD COLUMN.  On a table that   *)
(* has the column the statement throws and the catch drops the error; on a *)
(* table that lacks it the column is added, NULL in every row, and runAsync *)
(* saves the database.  After the fourth the call returns.                 *)
AlterTable ==
  /\ schema.at \in DOMAIN AlterOrder
  /\ schema' = [schema EXCEPT !.columns = @ \cup {AlterOrder[schema.at]},
                              !.at = IF schema.at < Len(AlterOrder) THEN @ + 1 ELSE 0,
                              !.calls = IF schema.at < Len(AlterOrder) THEN @ ELSE @ + 1]
  /\ persisted' = IF AlterOrder[schema.at] \in schema.columns THEN persisted ELSE SaveDb(db)
  /\ UNCHANGED <<db, now, pc, sess, used, made, device, other, probe,
                 appLock>>

(* checkServerConnection that lets the error of GET /health through *)
CheckServerConnectionThrows ==
  /\ \E answered \in BOOLEAN :
       probe' = [called |-> TRUE, returned |-> answered, raised |-> ~answered]
  /\ UNCHANGED <<db, persisted, now, pc, sess, used, made, device,
                 other, schema, appLock>>

(* checkServerConnection: api.checkConnection returns true when GET /health *)
(* answered 2xx and false when api.get threw; nothing is thrown            *)
CheckServerConnection ==
  /\ \E answered \in BOOLEAN :
       probe' = [called |-> TRUE, returned |-> answered, raised |-> FALSE]
  /\ UNCHANGED <<db, persisted, now, pc, sess, used, made, device,
                 other, schema, appLock>>

(* Half a minute passes, between sessions or while the push request is out *)
Tick ==
  /\ pc \in {"idle", "pushWait"}
  /\ now < MaxTime
  /\ now' = now + 1
  /\ UNCHANGED <<db, persisted, pc, sess, used, made, device, aside>>

(* Time passes while a sync session is suspended at an await of its pull   *)
(* transaction, or between the pull and the push of a fullSync             *)
SessionTick ==
  /\ pc \in {"pullTx", "done"}
  /\ now < MaxTime
  /\ now' = now + 1
  /\ UNCHANGED <<db, persisted, pc, sess, used, made, device, aside>>

----------------------------------------------------------------------------
(* The app lock *)

(* The values a user can give autoLockMinutes, and the lengths of a PIN *)
AutoLockChoices == NoAutoLock..MaxAutoLock
PinLengths == (PIN_LENGTH - 1)..(PIN_LENGTH + 1)
AppStates == {"active", "inactive", "background"}

(* The provider after a call: what it was called with is recorded *)
Called(a, op, arg) == [a EXCEPT !.op = op, !.arg = arg, !.wasLocked = appLock.isLocked]

(* Only appLock changes *)
AppLockOnly == UNCHANGED <<db, persisted, now, pc, sess, used, made, device, other,
                           schema, probe>>

(* The mount effect: the three keys are read and the state is set *)
Loaded ==
  /\ ~appLock.isReady
  /\ appLock' = Called([appLock EXCEPT !.hasPin = appLock.store.pin,
                                       !.useBiometric = appLock.store.biometric,
                                       !.autoLockMinutes = appLock.store.autoLock,
                                       !.isLocked = appLock.store.pin,
                                       !.isReady = TRUE], "load", 0)
  /\ AppLockOnly

(* The mount effect when a read of SecureStore or LocalAuthentication      *)
(* rejects: the catch unlocks                                              *)
LoadFails ==
  /\ ~appLock.isReady
  /\ ~appLock.web
  /\ appLock' = Called([appLock EXCEPT !.isLocked = FALSE, !.isReady = TRUE], "load", 1)
  /\ AppLockOnly

(* setPin(pin), for a pin of the given length *)
SetPin(length) ==
  /\ appLock' = Called(IF length # PIN_LENGTH THEN appLock
                       ELSE [appLock EXCEPT !.store.pin = TRUE, !.hasPin = TRUE,
                                            !.isLocked = TRUE],
                       "setPin", length)
  /\ AppLockOnly

(* removePin() *)
RemovePin ==
  /\ appLock' = Called([appLock EXCEPT !.store = NoStore, !.hasPin = FALSE,
                                       !.useBiometric = FALSE,
                                       !.autoLockMinutes = NoAutoLock,
                                       !.isLocked = FALSE], "removePin", 0)
  /\ AppLockOnly

(* removePin() when a deleteItemAsync of SecureStore rejects, after k keys *)
(* were deleted: the state is not set                                      *)
RemovePinFails ==
  /\ ~appLock.web
  /\ \E k \in 0..2 :
       appLock' = Called([appLock EXCEPT
                            !.store.pin = IF k >= 1 THEN FALSE ELSE @,
                            !.store.biometric = IF k >= 2 THEN FALSE ELSE @],
                         "removePin", 1)
  /\ AppLockOnly

(* setUseBiometric(value) *)
SetUseBiometric ==
  /\ \E value \in BOOLEAN :
       appLock' = Called([appLock EXCEPT !.store.biometric = value,
                                         !.useBiometric = value], "setUseBiometric", 0)
  /\ AppLockOnly

(* setAutoLockMinutes(minutes) *)
SetAutoLockMinutes(minutes) ==
  /\ appLock' = Called([appLock EXCEPT !.store.autoLock = minutes,
                                       !.autoLockMinutes = minutes],
                       "setAutoLockMinutes", minutes)
  /\ AppLockOnly

(* lock() that does not look at hasPin *)
LockWithoutPin ==
  /\ appLock' = Called([appLock EXCEPT !.isLocked = TRUE], "lock", 0)
  /\ AppLockOnly

(* lock() *)
Lock ==
  /\ appLock' = Called(IF appLock.hasPin THEN [appLock EXCEPT !.isLocked = TRUE]
                       ELSE appLock, "lock", 0)
  /\ AppLockOnly

(* unlock() *)
Unlock ==
  /\ appLock' = Called([appLock EXCEPT !.isLocked = FALSE], "unlock", 0)
  /\ AppLockOnly

(* onStateChange that locks on return only when autoLockMinutes is 0 *)
OnStateChangeImmediate(a, nextState, t) ==
  IF nextState \in {"background", "inactive"}
  THEN [a EXCEPT !.lastBackgroundAt = t,
                 !.isLocked = IF a.hasPin /\ a.autoLockMinutes = 0 THEN TRUE ELSE @]
  ELSE [a EXCEPT !.isLocked = IF a.hasPin /\ a.autoLockMinutes = 0 THEN TRUE ELSE @]

(* onStateChange(nextState) at the clock t *)
OnStateChange(a, nextState, t) ==
  IF nextState \in {"background", "inactive"}
  THEN [a EXCEPT !.lastBackgroundAt = t,
                 !.isLocked = IF a.hasPin /\ a.autoLockMinutes = 0 THEN TRUE ELSE @]
  ELSE IF ~a.hasPin \/ a.autoLockMinutes < 0 THEN a
  ELSE IF a.lastBackgroundAt = 0 THEN a
  ELSE IF \/ a.autoLockMinutes = 0
          \/ t - a.lastBackgroundAt >= a.autoLockMinutes * OneMinute
       THEN [a EXCEPT !.isLocked = TRUE]
       ELSE a

(* AppState reports a change, on native, and the listener runs *)
AppStateChange(nextState) ==
  /\ ~appLock.web
  /\ nextState # appLock.appState
  /\ ~(appLock.appState = "background" /\ nextState = "inactive")
  /\ appLock' = Called([OnStateChange(appLock, nextState, now) EXCEPT
                          !.appState = nextState,
                          !.leftAt = IF nextState = "active" THEN @ ELSE now],
                       nextState, 0)
  /\ AppLockOnly

Next ==
  \/ CreateProduct
  \/ CreateInvoice
  \/ PullFetch(PullProducts, PullInvoices, MaxRecords)
  \/ PullFetchFails
  \/ PullProduct
  \/ PullInvoice
  \/ PullCommit
  \/ PushSelect
  \/ PushRespond(ResponseProducts, ResponseInvoices, MaxRecords)
  \/ PushFails
  \/ PushProduct
  \/ PushInvoice
  \/ PushCommit
  \/ Return

Spec == Init /\ [][Next]_vars

(* The same program, its snapshots carrying invoices with items *)
NextItems ==
  \/ CreateProduct
  \/ CreateInvoice
  \/ PullFetch(ItemRunProducts, ItemRunInvoices, MaxItemRecords)
  \/ PullFetchFails
  \/ PullProduct
  \/ PullInvoice
  \/ PullCommit
  \/ PushSelect
  \/ PushRespond(EchoProducts, EchoInvoices, MaxItemRecords)
  \/ PushFails
  \/ PushProduct
  \/ PushInvoice
  \/ PushCommit
  \/ Return

SpecItems == Init /\ [][NextItems]_vars

(* The same program while the clock runs *)
NextClock ==
  \/ CreateProduct
  \/ CreateInvoice
  \/ PullFetch(ClockProducts, ClockInvoices, MaxClockRecords)
  \/ PullFetchFails
  \/ PullProduct
  \/ PullInvoice
  \/ PullCommit
  \/ PushSelect
  \/ PushRespond(EchoProducts, EchoInvoices, MaxClockRecords)
  \/ PushFails
  \/ PushProduct
  \/ PushInvoice
  \/ PushCommit
  \/ Return
  \/ Tick

SpecClock == Init /\ [][NextClock]_vars

(* The snapshots of the fullSync runs *)
FullProducts == ProductDTOs({"a"}, Hints, {"New"})
FullInvoices == InvoiceDTOs({"a"}, {}, {Iso(0), NoTime}, NoItems)

(* The same program with fullSync and the connection probe in use *)
NextFull ==
  \/ CreateProduct
  \/ CreateInvoice
  \/ PullFetch(FullProducts, FullInvoices, MaxFullRecords)
  \/ PullFetchFails
  \/ FullSyncFetch(FullProducts, FullInvoices, MaxFullRecords)
  \/ FullSyncFetchFails
  \/ PullProduct
  \/ PullInvoice
  \/ PullCommit
  \/ FullSyncPush
  \/ PushSelect
  \/ PushRespond(EchoProducts, EchoInvoices, MaxFullRecords)
  \/ PushRespondWithoutInvoices(EchoProducts, MaxFullRecords)
  \/ PushFails
  \/ PushProduct
  \/ PushInvoice
  \/ PushInvoicesThrow
  \/ PushCommit
  \/ Return
  \/ CheckServerConnection

SpecFull == Init /\ [][NextFull]_vars

(* The snapshots of the runs with two invocations *)
TwoProducts == ProductDTOs({"a"}, {}, {"New"})
TwoInvoices == InvoiceDTOs({"a"}, {}, {Iso(0)}, NoItems)

(* The same program when a second invocation is made before the first ended *)
NextTwo ==
  \/ CreateProduct
  \/ CreateInvoice
  \/ PullFetch(TwoProducts, TwoInvoices, MaxTwoRecords)
  \/ PullFetchFails
  \/ PullProduct
  \/ PullInvoice
  \/ PullCommit
  \/ PushSelect
  \/ PushRespond(EchoProducts, EchoInvoices, MaxTwoRecords)
  \/ PushFails
  \/ PushProduct
  \/ PushInvoice
  \/ PushCommit
  \/ Return
  \/ OtherPull(TwoProducts, TwoInvoices, MaxTwoRecords)
  \/ OtherPush
  \/ OtherPushRespond(EchoProducts, EchoInvoices, MaxTwoRecords)
  \/ OtherStatement
  \/ OtherCommit
  \/ OtherFails
  \/ OtherReturn

SpecTwo == Init /\ [][NextTwo]_vars

(* The same program on a device whose SecureStore may fail *)
NextDevice ==
  \/ CreateProduct
  \/ CreateInvoice
  \/ PullFetch(ClockProducts, ClockInvoices, MaxClockRecords)
  \/ PullFetchFails
  \/ PullProduct
  \/ PullInvoice
  \/ PullCommit
  \/ PushSelect
  \/ PushRespond(EchoProducts, EchoInvoices, MaxClockRecords)
  \/ PushFails
  \/ PushProduct
  \/ PushInvoice
  \/ PushCommit
  \/ Return
  \/ SecureStoreChanges

SpecDevice == Init /\ [][NextDevice]_vars

(* A database file whose products and invoices tables were made without    *)
(* the sync columns: the case initSyncTables is there for                  *)
InitLegacy ==
  /\ db = EmptyDb
  /\ persisted = EmptyDb
  /\ now = StartTime
  /\ pc = "idle"
  /\ sess = NoSession
  /\ used = 0
  /\ made = 0
  /\ device = NewDevice
  /\ other = NoOther
  /\ schema \in {NewSchema, LegacySchema}
  /\ probe = NoProbe
  /\ appLock = NewAppLock

(* The start of the app on such a file, before the first sync *)
NextSchema ==
  \/ CreateProduct
  \/ CreateInvoice
  \/ InitSyncTablesCall
  \/ AlterTable
  \/ CheckServerConnection

SpecSchema == InitLegacy /\ [][NextSchema]_vars

(* The snapshots of the order runs: products of two server ids, with or    *)
(* without the `id` field, and an invoice whose item names product "a"     *)
OrderProducts == ProductDTOs(ServerIds, Hints, {"New"})
OrderInvoices ==
  InvoiceDTOs({"a"}, {}, {Iso(0)}, {[hasItems |-> TRUE, items |-> <<ItemA>>]})

(* Pulls of such snapshots into a store that may hold a product *)
NextOrder ==
  \/ CreateProduct
  \/ PullFetch(OrderProducts, OrderInvoices, MaxOrderRecords)
  \/ PullProduct
  \/ PullInvoice
  \/ PullCommit
  \/ Return

SpecOrder == Init /\ [][NextOrder]_vars

(* The snapshots of the session runs *)
SessionProducts == ProductDTOs({"a"}, {}, {"New"})
SessionInvoices == InvoiceDTOs({"a"}, {}, {Iso(0)}, NoItems)

(* fullSync sessions while the clock runs, between and inside the phases *)
NextSession ==
  \/ CreateProduct
  \/ FullSyncFetch(SessionProducts, SessionInvoices, MaxSessionRecords)
  \/ PullProduct
  \/ PullInvoice
  \/ PullCommit
  \/ FullSyncPush
  \/ PushRespond(EchoProducts, EchoInvoices, MaxSessionRecords)
  \/ PushFails
  \/ PushProduct
  \/ PushInvoice
  \/ PushCommit
  \/ Return
  \/ SessionTick

SpecSession == Init /\ [][NextSession]_vars

(* The app starts, on native over any secure store or on the web, where    *)
(* the store is an object of the page and starts empty                     *)
InitAppLock ==
  /\ db = EmptyDb
  /\ persisted = EmptyDb
  /\ now = StartTime
  /\ pc = "idle"
  /\ sess = NoSession
  /\ used = 0
  /\ made = 0
  /\ device = NewDevice
  /\ other = NoOther
  /\ schema = NewSchema
  /\ probe = NoProbe
  /\ \E web \in BOOLEAN :
       \E store \in [pin : BOOLEAN, biometric : BOOLEAN, autoLock : AutoLockChoices] :
         /\ web => store = NoStore
         /\ ~store.pin => store = NoStore
         /\ appLock = [NewAppLock EXCEPT !.web = web, !.store = store]

(* The app lock while the clock runs *)
NextAppLock ==
  \/ Loaded
  \/ LoadFails
  \/ \E length \in PinLengths : SetPin(length)
  \/ RemovePin
  \/ RemovePinFails
  \/ SetUseBiometric
  \/ \E minutes \in AutoLockChoices : SetAutoLockMinutes(minutes)
  \/ Lock
  \/ Unlock
  \/ \E nextState \in AppStates : AppStateChange(nextState)
  \/ Tick

SpecAppLock == InitAppLock /\ [][NextAppLock]_vars

----------------------------------------------------------------------------
(* pullFromServer as a whole, for a snapshot applied to the store d at     *)
(* clock t: the store it leaves, whether it committed or threw             *)

RECURSIVE PullProductsFrom(_, _, _)
PullProductsFrom(d, ps, t) ==
  IF ps = <<>> THEN Ok(d)
  ELSE LET r == ApplyProduct(d, Head(ps), t)
       IN IF r.ok THEN PullProductsFrom(r.db, Tail(ps), t) ELSE r

RECURSIVE PullInvoicesFrom(_, _, _)
PullInvoicesFrom(d, is, t) ==
  IF is = <<>> THEN Ok(d)
  ELSE LET r == ApplyInvoice(d, Head(is), t)
       IN IF r.ok THEN PullInvoicesFrom(r.db, Tail(is), t) ELSE r

PullResult(d, snap, t) ==
  LET r == PullProductsFrom(d, snap.products, t)
  IN IF r.ok THEN PullInvoicesFrom(r.db, snap.invoices, t).db ELSE r.db

----------------------------------------------------------------------------
(* Comparing stores *)

Unstamped(rows) == [i \in DOMAIN rows |-> [rows[i] EXCEPT !.syncedAt = NoTime]]

ItemKey(it) == <<it.invoiceId, it.productId, it.quantity, it.price>>

ItemKeys(d) == {ItemKey(d.items[i]) : i \in DOMAIN d.items}

ItemCount(d, k) == Cardinality({i \in DOMAIN d.items : ItemKey(d.items[i]) = k})

(* Row for row on every column but syncedAt; the items of each invoice as a multiset *)
SameStore(x, y) ==
  /\ Unstamped(x.products) = Unstamped(y.products)
  /\ Unstamped(x.invoices) = Unstamped(y.invoices)
  /\ \A k \in ItemKeys(x) \cup ItemKeys(y) : ItemCount(x, k) = ItemCount(y, k)

PullDone == pc = "done" /\ sess.op = "pull"
PushDone == pc = "done" /\ sess.op = "push"

----------------------------------------------------------------------------
(* C1: pull is idempotent: once a pull has committed, pulling the same     *)
(* snapshot again leaves the store as it is, syncedAt stamps aside.        *)
C1_PullIdempotent ==
  PullDone => SameStore(PullResult(db, sess.data, now), db)

----------------------------------------------------------------------------
(* The step just taken inside the pull transaction *)

AfterPullProduct == sess.op = "pull" /\ pc = "pullTx" /\ sess.step = "product"
AfterPullInvoice == sess.op = "pull" /\ pc = "pullTx" /\ sess.step = "invoice"

LastProduct == sess.data.products[sess.i - 1]
LastInvoice == sess.data.invoices[sess.j - 1]

RowsWithServerId(rows, s) == {i \in DOMAIN rows : rows[i].serverId = s}

(* The mutable fields of a product row are those of the record *)
CarriesProduct(row, r) ==
  /\ row.name = r.name
  /\ row.costPrice = r.costPrice
  /\ row.sellingPrice = r.sellingPrice
  /\ row.quantity = r.quantity
  /\ row.lowStockLevel = r.lowStockLevel

(* C2: when a product row had serverId s before the pull and the snapshot  *)
(* holds a product with server id s, the committed pull leaves exactly one *)
(* row with serverId s, and it carries the fields of the snapshot.         *)
C2_UpsertNoDuplicate ==
  PullDone =>
    \A k \in DOMAIN sess.data.products :
      LET s == ServerIdOf(sess.data.products[k])
      IN RowsWithServerId(sess.txBegin.products, s) # {} =>
           /\ Cardinality(RowsWithServerId(db.products, s)) = 1
           /\ \A i \in RowsWithServerId(db.products, s) :
                CarriesProduct(db.products[i], sess.data.products[k])

(* C3: between sessions no two product rows share a serverId. *)
C3_ServerIdUnique ==
  pc \in {"idle", "done", "failed"} =>
    \A i, j \in DOMAIN db.products :
      (i # j /\ db.products[i].serverId # Null) =>
        db.products[i].serverId # db.products[j].serverId

(* C4: when the record's server id is the serverId of one row and its `id` *)
(* the local id of another, the row the pull updates is the one with the   *)
(* serverId; the other row is left as it was.                              *)
ServerIdFirst(before, after, r) ==
  \A x, y \in DOMAIN before :
    (before[x].serverId = ServerIdOf(r) /\ before[y].id = IntOf(r.id) /\ x # y) =>
      /\ after[y] = before[y]
      /\ after[x].serverId = ServerIdOf(r)
      /\ after[x].syncedAt = Iso(now)

C4_ServerIdBeforeLocalId ==
  /\ AfterPullProduct => ServerIdFirst(sess.prev.products, db.products, LastProduct)
  /\ AfterPullInvoice => ServerIdFirst(sess.prev.invoices, db.invoices, LastInvoice)

----------------------------------------------------------------------------
(* The push that has read its rows and waits for the server *)

PushSelected == sess.op = "push" /\ pc = "pushWait"

PayloadIds(list) == {IntOf(list[k].id) : k \in DOMAIN list}

(* The rows the dirty rule names at the clock t: never synced, or synced   *)
(* more than a minute before t                                             *)
StaleIds(rows, t) ==
  {rows[i].id : i \in {k \in DOMAIN rows :
     rows[k].syncedAt = NoTime \/ TimeOf(rows[k].syncedAt) + OneMinute < t}}

(* The rows stamped less than a minute before t *)
FreshIds(rows, t) ==
  {rows[i].id : i \in {k \in DOMAIN rows :
     rows[k].syncedAt # NoTime /\ TimeOf(rows[k].syncedAt) + OneMinute > t}}

(* C5: every row that was never synced or was synced more than a minute    *)
(* before the selection is in the payload of the push.                     *)
C5_StaleRowsPushed ==
  PushSelected =>
    /\ StaleIds(db.products, sess.t0) \subseteq PayloadIds(sess.payload.products)
    /\ StaleIds(db.invoices, sess.t0) \subseteq PayloadIds(sess.payload.invoices)

(* C6: no row stamped less than a minute before the selection is in the    *)
(* payload of the push, whatever the date of the stamp and of the push.    *)
C6_FreshRowsNotPushed ==
  PushSelected =>
    /\ FreshIds(db.products, sess.t0) \cap PayloadIds(sess.payload.products) = {}
    /\ FreshIds(db.invoices, sess.t0) \cap PayloadIds(sess.payload.invoices) = {}

(* A push selects while a row stamped the day before is less than a minute old *)
C6_Witness ==
  /\ PushSelected
  /\ \E i \in DOMAIN db.products :
       /\ db.products[i].id \in FreshIds(db.products, sess.t0)
       /\ db.products[i].syncedAt[1] < sess.t0 \div TicksPerDay
  /\ PayloadIds(sess.payload.products) # {}

(* The server answered with one record bearing a server id for each row sent *)
AnsweredAll ==
  /\ Len(sess.data.products) = Len(sess.payload.products)
  /\ Len(sess.data.invoices) = Len(sess.payload.invoices)
  /\ \A k \in DOMAIN sess.data.products : ServerIdOf(sess.data.products[k]) # Null
  /\ \A k \in DOMAIN sess.data.invoices : ServerIdOf(sess.data.invoices[k]) # Null

Acknowledged(rows, ids, t) ==
  \A i \in DOMAIN rows :
    rows[i].id \in ids =>
      /\ rows[i].serverId # Null
      /\ rows[i].syncedAt # NoTime
      /\ TimeOf(rows[i].syncedAt) >= t

(* C7: after a push that returned, the server having answered with a copy  *)
(* bearing a server id for every row sent, every row the push had selected *)
(* has a server id and a syncedAt not before the time the push was         *)
(* invoked.                                                                *)
C7_PushRoundTrip ==
  (PushDone /\ AnsweredAll) =>
    /\ Acknowledged(db.products, PayloadIds(sess.payload.products), sess.t0)
    /\ Acknowledged(db.invoices, PayloadIds(sess.payload.invoices), sess.t0)

----------------------------------------------------------------------------
(* C8: a snapshot product whose server id is no stored serverId and whose  *)
(* `id` is the local id of a row updates that row and gives it the server  *)
(* id; no row is added and the other rows stay as they were.               *)
Bootstrapped(before, after, r) ==
  \A y \in DOMAIN before :
    (RowsWithServerId(before, ServerIdOf(r)) = {} /\ before[y].id = IntOf(r.id)) =>
      /\ Len(after) = Len(before)
      /\ after[y].id = before[y].id
      /\ after[y].serverId = ServerIdOf(r)
      /\ after[y].syncedAt = Iso(now)
      /\ after[y].createdAt = before[y].createdAt
      /\ CarriesProduct(after[y], r)
      /\ \A x \in DOMAIN before : x # y => after[x] = before[x]

C8_BootstrapMatching ==
  AfterPullProduct => Bootstrapped(sess.prev.products, db.products, LastProduct)

(* A record with `_id` "a" and `id` 1 has been applied to a store whose    *)
(* row 1 was created on the device and had no server id                    *)
C8_Witness ==
  /\ AfterPullProduct
  /\ LastProduct._id # Null
  /\ \E y \in DOMAIN sess.prev.products :
       /\ sess.prev.products[y].id = IntOf(LastProduct.id)
       /\ sess.prev.products[y].serverId = Null
       /\ sess.prev.products[y].name = "Old"
  /\ RowsWithServerId(sess.prev.products, ServerIdOf(LastProduct)) = {}
  /\ Len(sess.prev.products) > 1

----------------------------------------------------------------------------
(* C9: after a snapshot invoice with an `items` list has been applied, the *)
(* items of its local invoice are one new row for each snapshot item whose *)
(* product is found, in order, with the quantity and price of the          *)
(* snapshot; none of the rows the invoice had before is left.              *)
Resolves(d, item) ==
  \E i \in DOMAIN d.products :
    \/ d.products[i].serverId = ItemRef(item)
    \/ d.products[i].id = IntOf(ItemRef(item))

ItemsOf(d, invoiceId) == SelectSeq(d.items, LAMBDA it : it.invoiceId = invoiceId)

ItemsReplaced(before, after, r) ==
  LET mine == ItemsOf(after, LocalInvoiceId(before, after, r))
      found == SelectSeq(r.items, LAMBDA it : Resolves(after, it))
  IN /\ Len(mine) = Len(found)
     /\ \A k \in DOMAIN mine :
          /\ mine[k].quantity = found[k].quantity
          /\ mine[k].price = found[k].price
          /\ \E i \in DOMAIN after.products :
               /\ after.products[i].id = mine[k].productId
               /\ \/ after.products[i].serverId = ItemRef(found[k])
                  \/ after.products[i].id = IntOf(ItemRef(found[k]))
          /\ mine[k].id > before.itemSeq

C9_ItemsReplaced ==
  (AfterPullInvoice /\ LastInvoice.hasItems) => ItemsReplaced(sess.prev, db, LastInvoice)

(* An invoice that had an item gets the items of a snapshot, one of them   *)
(* found and at another price, one of them naming no local product         *)
C9_Witness ==
  /\ AfterPullInvoice
  /\ LastInvoice.hasItems
  /\ LET id == LocalInvoiceId(sess.prev, db, LastInvoice)
     IN /\ Len(ItemsOf(sess.prev, id)) > 0
        /\ Len(ItemsOf(db, id)) > 0
        /\ \E k \in DOMAIN LastInvoice.items : Resolves(db, LastInvoice.items[k])
        /\ \E k \in DOMAIN LastInvoice.items : ~Resolves(db, LastInvoice.items[k])
        /\ ItemsOf(sess.prev, id)[1].price # ItemsOf(db, id)[1].price

----------------------------------------------------------------------------
(* C10: when a statement fails inside the transaction of a pull or a push, *)
(* the store and its persisted copy are what they were when the            *)
(* transaction began.                                                      *)
C10_PhaseAtomic ==
  (pc = "failed" /\ sess.err = "database") =>
    /\ db = sess.txBegin
    /\ persisted = sess.txBegin

----------------------------------------------------------------------------
(* The request of a pull or a push failed: the server was not reached or   *)
(* answered outside 2xx                                                    *)
RequestFailed == pc = "failed" /\ sess.err = "network"

(* C11: when GET /sync/all or POST /sync/push fails, the operation throws  *)
(* to its caller and products, invoices and invoice_items, in memory and   *)
(* as persisted, are what they were when the operation was invoked.        *)
C11_RequestFailureNoMutation ==
  RequestFailed =>
    /\ db = sess.txBegin
    /\ persisted = sess.txBegin
    /\ sess.step = "none"

(* The request of a push failed after rows had been selected for it *)
C11_Witness ==
  /\ RequestFailed
  /\ sess.op = "push"
  /\ sess.payload.products # <<>>
  /\ sess.payload.invoices # <<>>
  /\ db.items # <<>>

----------------------------------------------------------------------------
(* The invoice loop of a pull has just handled a record, and the pull may  *)
(* have committed since                                                    *)
InvoiceStepped ==
  /\ sess.op = "pull"
  /\ \/ sess.step = "invoice"
     \/ sess.step = "commit" /\ sess.data.invoices # <<>>

(* The record it handled: the cursor stays on a record that threw *)
SteppedInvoice ==
  IF pc = "failed" THEN sess.data.invoices[sess.j] ELSE sess.data.invoices[sess.j - 1]

(* An item of the record names no local product *)
HasUnresolved(d, r) ==
  r.hasItems /\ \E k \in DOMAIN r.items : ~Resolves(d, r.items[k])

(* C12: a snapshot item whose product reference is neither the serverId    *)
(* nor the local id of a product is not inserted and throws nothing: the   *)
(* invoice of the item is applied, the items of it that name a product are *)
(* inserted, the products are untouched, and the pull goes on to commit.   *)
C12_UnresolvedItemSkipped ==
  (InvoiceStepped /\ HasUnresolved(sess.prev, SteppedInvoice)) =>
    /\ pc # "failed"
    /\ db.products = sess.prev.products
    /\ LET r == SteppedInvoice
           id == LocalInvoiceId(sess.prev, db, r)
           mine == ItemsOf(db, id)
           found == SelectSeq(r.items, LAMBDA it : Resolves(sess.prev, it))
       IN /\ \E i \in DOMAIN db.invoices :
               /\ db.invoices[i].id = id
               /\ db.invoices[i].serverId = ServerIdOf(r)
               /\ db.invoices[i].totalAmount = r.totalAmount
               /\ db.invoices[i].totalItems = r.totalItems
          /\ Len(mine) = Len(found)
          /\ \A k \in DOMAIN mine :
               /\ mine[k].quantity = found[k].quantity
               /\ mine[k].price = found[k].price
               /\ mine[k].productId # 0

(* A pull has committed whose last invoice had an item naming no product   *)
(* next to one naming a product of the device                              *)
C12_Witness ==
  /\ PullDone
  /\ sess.data.invoices # <<>>
  /\ HasUnresolved(sess.prev, SteppedInvoice)
  /\ \E k \in DOMAIN SteppedInvoice.items : Resolves(sess.prev, SteppedInvoice.items[k])
  /\ Len(ItemsOf(db, LocalInvoiceId(sess.prev, db, SteppedInvoice))) = 1

----------------------------------------------------------------------------
(* C13: in a fullSync the push begins, with its read of the device id and  *)
(* its dirty-row queries, only from a pull that has handled every record,  *)
(* committed and been saved; once the push runs the pull does nothing      *)
(* more, and after a pull that failed no push begins.                      *)
C13_PullThenPush ==
  [][/\ (sess'.full /\ sess'.op = "push" /\ sess.op # "push") =>
          /\ pc = "done"
          /\ sess.op = "pull"
          /\ sess.full
          /\ sess.step = "commit"
          /\ sess.i > Len(sess.data.products)
          /\ sess.j > Len(sess.data.invoices)
          /\ persisted = db
     /\ (sess.full /\ sess.op = "push") => sess'.op # "pull"
     /\ (sess.full /\ sess.op = "pull" /\ pc = "failed") =>
          /\ sess'.op # "push"
          /\ pc' \in {"failed", "idle"}
    ]_vars

(* A fullSync has pulled records and then pushed rows, to the end *)
C13_Witness ==
  /\ PushDone
  /\ sess.full
  /\ sess.pulled > 0
  /\ sess.payload.products # <<>>
  /\ sess.data.products # <<>>

----------------------------------------------------------------------------
(* An invocation has run a statement, or read the rows it sends, and its   *)
(* transaction has yet to be saved                                         *)
Open(p, s) == (p = "pullTx" /\ s.step # "none") \/ p = "pushTx"

(* C14: when a second invocation is made while the first is suspended, the *)
(* store operations of the two do not interleave: never have both run a    *)
(* statement of a transaction that is yet to be saved.                     *)
C14_SessionsIsolated ==
  ~(Open(pc, sess) /\ Open(other.pc, other.sess))

----------------------------------------------------------------------------
(* C15: every push sends the same device id, whatever SecureStore does:    *)
(* the ids sent so far are one id at most.                                 *)
C15_StableDeviceId ==
  \A x, y \in device.sent : x = y

----------------------------------------------------------------------------
(* The payload has one entry for each dirty row, in order, with the local  *)
(* id of the row as `id` and its serverId, or none, as `_id`               *)
CarriesIdentity(rows, list, t) ==
  LET dirty == SelectSeq(rows, LAMBDA r : Dirty(r, t))
  IN /\ Len(list) = Len(dirty)
     /\ \A k \in DOMAIN list :
          /\ IntOf(list[k].id) = dirty[k].id
          /\ list[k]._id = dirty[k].serverId

(* The response record r was applied to the row whose local id is its `id` *)
AppliedById(before, after, r) ==
  /\ Len(after) = Len(before)
  /\ \A x \in DOMAIN before :
       IF before[x].id = IntOf(r.id)
       THEN after[x] = [before[x] EXCEPT !.serverId = ServerIdOf(r), !.syncedAt = Iso(now)]
       ELSE after[x] = before[x]

AfterPushProduct == sess.op = "push" /\ pc = "pushTx" /\ sess.step = "product"
AfterPushInvoice == sess.op = "push" /\ pc = "pushTx" /\ sess.step = "invoice"

(* C16: the payload of a push carries, for every dirty product and         *)
(* invoice, the local id as `id` and the server id as `_id` exactly when   *)
(* the row has one; each record of the response is applied to the row      *)
(* whose local id is the `id` of the record, and to no other.              *)
C16_PayloadIdentity ==
  /\ sess.op = "push" =>
       /\ CarriesIdentity(sess.txBegin.products, sess.payload.products, sess.t0)
       /\ CarriesIdentity(sess.txBegin.invoices, sess.payload.invoices, sess.t0)
  /\ AfterPushProduct => AppliedById(sess.prev.products, db.products, LastProduct)
  /\ AfterPushInvoice => AppliedById(sess.prev.invoices, db.invoices, LastInvoice)

(* A push has sent a product that had a server id, stamped the day before, *)
(* next to a product that had none                                         *)
C16_Witness ==
  /\ PushSelected
  /\ \E k \in DOMAIN sess.payload.products :
       /\ sess.payload.products[k]._id # Null
       /\ sess.payload.products[k].id # sess.payload.products[k]._id
  /\ \E k \in DOMAIN sess.payload.products : sess.payload.products[k]._id = Null
  /\ \E x \in DOMAIN db.products : db.products[x].syncedAt # NoTime

----------------------------------------------------------------------------
(* The items the payload nests in an invoice are those of the local        *)
(* invoice, each naming its product and carrying the name the product has, *)
(* the quantity and the price                                              *)
ItemsDenormalized(d, entry) ==
  LET its == ItemsOf(d, IntOf(entry.id))
  IN /\ Len(entry.items) = Len(its)
     /\ \A m \in DOMAIN its :
          /\ entry.items[m].productId # Null
          /\ IntOf(entry.items[m].productId) = its[m].productId
          /\ entry.items[m].productName = ProductName(d, its[m].productId)
          /\ entry.items[m].quantity = its[m].quantity
          /\ entry.items[m].price = its[m].price

(* C17: every item of every invoice a push sends names its product by a    *)
(* productId that is not null and carries the name of the product, the     *)
(* quantity and the price of the local item, whether or not the invoice    *)
(* has a serverId.                                                         *)
C17_OutboundItems ==
  sess.op = "push" =>
    \A k \in DOMAIN sess.payload.invoices :
      ItemsDenormalized(sess.txBegin, sess.payload.invoices[k])

----------------------------------------------------------------------------
(* The server ids of the snapshot's products are pairwise distinct, and so  *)
(* are the `id` fields of those that have one                              *)
DistinctServerIds(ps) ==
  \A x, y \in DOMAIN ps :
    x # y => /\ ServerIdOf(ps[x]) # ServerIdOf(ps[y])
             /\ ps[x].id = Null \/ ps[x].id # ps[y].id

(* C20: after a pull has committed a snapshot whose products have pairwise *)
(* distinct server ids, every product of the snapshot has a row with its   *)
(* server id that carries its fields and is stamped.                       *)
C20_EveryProductApplied ==
  (PullDone /\ DistinctServerIds(sess.data.products)) =>
    \A k \in DOMAIN sess.data.products :
      \E i \in DOMAIN db.products :
        /\ db.products[i].serverId = ServerIdOf(sess.data.products[k])
        /\ CarriesProduct(db.products[i], sess.data.products[k])
        /\ db.products[i].syncedAt # NoTime

----------------------------------------------------------------------------
(* C18: checkServerConnection returns true or false and throws nothing,    *)
(* and a call of it leaves the store, its persisted copy, the sessions and *)
(* the device id as they are: it pulls nothing and pushes nothing.         *)
C18_ProbeIndependent ==
  [][probe' # probe =>
       /\ probe'.called
       /\ ~probe'.raised
       /\ probe'.returned \in BOOLEAN
       /\ UNCHANGED <<db, persisted, pc, sess, other, device, used, made>>
    ]_vars

(* The probe has answered false while a pull was inside its transaction *)
C18_Witness ==
  /\ probe.called
  /\ ~probe.returned
  /\ pc = "pullTx"
  /\ sess.step = "product"
  /\ db.products # <<>>

----------------------------------------------------------------------------
(* C19: initSyncTables may be called again and again: no call throws, a    *)
(* call on tables that have the sync columns changes neither the columns   *)
(* nor a row nor the persisted copy, and once a call has returned the      *)
(* tables have all four columns, so that a second call adds nothing to the *)
(* first.                                                                  *)
C19_InitSyncTablesIdempotent ==
  /\ [](~schema.raised)
  /\ []((schema.calls > 0 /\ schema.at = 0) => schema.columns = SyncColumns)
  /\ [][schema' # schema =>
          /\ db' = db
          /\ schema.columns = SyncColumns =>
               (schema'.columns = SyncColumns /\ persisted' = persisted)
       ]_vars

(* A second call has returned on a database that holds rows, the first     *)
(* having added the columns                                                *)
C19_Witness ==
  /\ schema.calls = 2
  /\ schema.at = 0
  /\ schema.before = SyncColumns
  /\ schema.columns = SyncColumns
  /\ db.products # <<>>
  /\ db.invoices # <<>>

----------------------------------------------------------------------------
(* The local row of the product an item row points at bears server id s *)
PointsAtServerId(d, it, s) ==
  \E i \in DOMAIN d.products :
    d.products[i].id = it.productId /\ d.products[i].serverId = s

(* C21: the product loop is over before the first item is resolved, so     *)
(* that once an invoice of the snapshot has been applied, each of its      *)
(* items whose reference is the server id of a product of the same         *)
(* snapshot (server ids and `id` fields pairwise distinct) has a local     *)
(* item row, with its quantity and price, pointing at the product row that *)
(* bears this server id, whether or not the product was there before.      *)
C21_ProductsBeforeItems ==
  (AfterPullInvoice /\ LastInvoice.hasItems /\ DistinctServerIds(sess.data.products)) =>
    \A k \in DOMAIN LastInvoice.items :
      (\E n \in DOMAIN sess.data.products :
         ServerIdOf(sess.data.products[n]) = ItemRef(LastInvoice.items[k])) =>
        \E m \in DOMAIN db.items :
          /\ db.items[m].invoiceId = LocalInvoiceId(sess.prev, db, LastInvoice)
          /\ db.items[m].quantity = LastInvoice.items[k].quantity
          /\ db.items[m].price = LastInvoice.items[k].price
          /\ PointsAtServerId(db, db.items[m], ItemRef(LastInvoice.items[k]))

----------------------------------------------------------------------------
(* The item rows of the invoices other than invoiceId *)
ItemsOfOthers(d, invoiceId) == SelectSeq(d.items, LAMBDA it : it.invoiceId # invoiceId)

(* C22: a snapshot invoice without an `items` list leaves every item row   *)
(* as it was, those of the invoice it matched included; one with a list,   *)
(* empty or not, leaves its local invoice with none of the item rows it    *)
(* had, only rows inserted by this step, and the items of the other        *)
(* invoices as they were.                                                  *)
C22_ItemsOnlyWithList ==
  AfterPullInvoice =>
    LET id == LocalInvoiceId(sess.prev, db, LastInvoice)
    IN IF LastInvoice.hasItems
       THEN /\ \A k \in DOMAIN db.items :
                 db.items[k].invoiceId = id => db.items[k].id > sess.prev.itemSeq
            /\ Len(ItemsOf(db, id)) <= Len(LastInvoice.items)
            /\ ItemsOfOthers(db, id) = ItemsOfOthers(sess.prev, id)
       ELSE db.items = sess.prev.items

(* An invoice that has an item is matched by a snapshot record that has no *)
(* `items` list                                                            *)
C22_Witness ==
  /\ AfterPullInvoice
  /\ ~LastInvoice.hasItems
  /\ ItemsOf(sess.prev, LocalInvoiceId(sess.prev, db, LastInvoice)) # <<>>
  /\ db.invoices # sess.prev.invoices

----------------------------------------------------------------------------
(* The rows a pull that began at t0 on the rows `before` has inserted or   *)
(* changed, and wrote less than a minute before t: the pull began less     *)
(* than a minute before t, or the stamp of the row is less than a minute   *)
(* old                                                                     *)
RowsOf(rows) == {rows[i] : i \in DOMAIN rows}

FreshlyPulled(rows, before, t0, t) ==
  {rows[i].id : i \in {k \in DOMAIN rows :
     /\ rows[k] \notin RowsOf(before)
     /\ \/ t < t0 + OneMinute
        \/ rows[k].syncedAt # NoTime /\ TimeOf(rows[k].syncedAt) + OneMinute > t}}

(* C23: when the push of a fullSync reads its rows, no product and no      *)
(* invoice that the pull of this fullSync inserted or changed less than a  *)
(* minute before is in the payload.                                        *)
C23_PulledNotRepushed ==
  [][(PullDone /\ sess.full /\ pc' = "pushWait") =>
       /\ FreshlyPulled(db.products, sess.txBegin.products, sess.t0, now)
            \cap PayloadIds(sess'.payload.products) = {}
       /\ FreshlyPulled(db.invoices, sess.txBegin.invoices, sess.t0, now)
            \cap PayloadIds(sess'.payload.invoices) = {}
    ]_vars

(* The push of a fullSync that pulled a record sends a row of the device,  *)
(* while a row stamped the day before is less than a minute old            *)
C23_Witness ==
  /\ PushSelected
  /\ sess.full
  /\ sess.pulled > 0
  /\ sess.payload.products # <<>>
  /\ \E i \in DOMAIN db.products :
       /\ db.products[i].serverId # Null
       /\ db.products[i].syncedAt # NoTime
       /\ TimeOf(db.products[i].syncedAt) < sess.t0
       /\ TimeOf(db.products[i].syncedAt) + OneMinute > sess.t0
       /\ db.products[i].syncedAt[1] < sess.t0 \div TicksPerDay

----------------------------------------------------------------------------
(* C24: when the push of a fullSync has failed, after its pull committed,  *)
(* the store is the one the pull committed and saved: no row bears a stamp *)
(* or a server id of the failed push, and a pushToServer at the same clock *)
(* reads the rows the failed push had read.                                *)
C24_PullDurablePushUndone ==
  (pc = "failed" /\ sess.op = "push" /\ sess.full) =>
    /\ db = sess.txBegin
    /\ persisted = db
    /\ PushPayload(db, sess.t0) = sess.payload

----------------------------------------------------------------------------
(* C25: the value a fullSync resolves with has, as `pulled`, the number of *)
(* products and invoices of the snapshot its pull applied and, as          *)
(* `pushed`, the number of products and invoices its push sent.            *)
C25_FullSyncCounts ==
  (PushDone /\ sess.full) =>
    FullSyncResult(sess) =
      [pulled |-> sess.pulled,
       pushed |-> Len(sess.payload.products) + Len(sess.payload.invoices)]

----------------------------------------------------------------------------
(* The rows without their sync columns *)
WithoutSync(rows) ==
  [i \in DOMAIN rows |-> [rows[i] EXCEPT !.syncedAt = NoTime, !.serverId = Null]]

(* C26: no step of a pushToServer, from its reading of the dirty rows to   *)
(* its commit or its failure, inserts or deletes a product, an invoice or  *)
(* an item, or changes a column other than syncedAt and serverId of a      *)
(* product or an invoice.                                                  *)
C26_PushOnlySyncColumns ==
  [][sess'.op = "push" =>
       /\ WithoutSync(db'.products) = WithoutSync(db.products)
       /\ WithoutSync(db'.invoices) = WithoutSync(db.invoices)
       /\ db'.items = db.items
       /\ db'.itemSeq = db.itemSeq
    ]_vars

(* A push has committed that stamped a product and an invoice with an item *)
C26_Witness ==
  /\ PushDone
  /\ db.products # sess.txBegin.products
  /\ db.invoices # sess.txBegin.invoices
  /\ db.items # <<>>

----------------------------------------------------------------------------
(* The row matches a record of the list, by its serverId or by its id *)
Matched(row, list) ==
  \E k \in DOMAIN list :
    \/ row.serverId # Null /\ row.serverId = ServerIdOf(list[k])
    \/ row.id = IntOf(list[k].id)

(* The rows `before` are all still there, under their ids, and those that  *)
(* match no record of the list are as they were                            *)
UnmatchedKept(before, after, list) ==
  /\ Len(after) >= Len(before)
  /\ \A i \in DOMAIN before :
       /\ after[i].id = before[i].id
       /\ ~Matched(before[i], list) => after[i] = before[i]

(* C27: while a pull runs and whatever its end, every product and invoice  *)
(* row that was there when it began is still there, and a row that matches *)
(* no record of the snapshot, by serverId or by local id, is unchanged in  *)
(* every column.                                                           *)
C27_UnmatchedRowsKept ==
  sess.op = "pull" =>
    /\ UnmatchedKept(sess.txBegin.products, db.products, sess.data.products)
    /\ UnmatchedKept(sess.txBegin.invoices, db.invoices, sess.data.invoices)

(* A pull has committed that changed a product row next to another one,    *)
(* which matches no record, and left an invoice that matches none          *)
C27_Witness ==
  /\ PullDone
  /\ \E i, j \in DOMAIN sess.txBegin.products :
       /\ ~Matched(sess.txBegin.products[i], sess.data.products)
       /\ db.products[j] # sess.txBegin.products[j]
  /\ \E i \in DOMAIN sess.txBegin.invoices :
       ~Matched(sess.txBegin.invoices[i], sess.data.invoices)
  /\ sess.data.invoices # <<>>

----------------------------------------------------------------------------
(* Every item row references an invoice row and a product row of the store *)
ItemsReferenced(d) ==
  \A k \in DOMAIN d.items :
    /\ \E i \in DOMAIN d.invoices : d.invoices[i].id = d.items[k].invoiceId
    /\ \E i \in DOMAIN d.products : d.products[i].id = d.items[k].productId

(* C28: in every state the pulls and pushes lead to, each item row         *)
(* references an invoice row and a product row that exist; and the item    *)
(* rows a step of the invoice loop has inserted all reference the local    *)
(* invoice of its record, the row that bears the record's server id.       *)
C28_ItemsReferenced ==
  /\ ItemsReferenced(db)
  /\ ItemsReferenced(persisted)
  /\ AfterPullInvoice =>
       LET id == LocalInvoiceId(sess.prev, db, LastInvoice)
       IN /\ \A k \in DOMAIN db.items :
               db.items[k].id > sess.prev.itemSeq => db.items[k].invoiceId = id
          /\ \E i \in DOMAIN db.invoices :
               db.invoices[i].id = id /\ db.invoices[i].serverId = ServerIdOf(LastInvoice)

(* A pull has committed an item it inserted for an invoice of the server, *)
(* next to the item of an invoice of the device                            *)
C28_Witness ==
  /\ PullDone
  /\ \E k, n \in DOMAIN db.items :
       /\ db.items[k].id > sess.txBegin.itemSeq
       /\ db.items[n].id <= sess.txBegin.itemSeq
       /\ db.items[k].invoiceId # db.items[n].invoiceId

----------------------------------------------------------------------------
(* The provider without the record of its last call *)
Shown(a) == [a EXCEPT !.op = "none", !.arg = 0, !.wasLocked = FALSE]

(* C29: once the provider is ready, and whatever calls and app-state       *)
(* changes follow, isLocked holds only with hasPin; a lock() without a PIN *)
(* and a setPin with a PIN that has not four characters change nothing of  *)
(* the provider or of its store.                                           *)
C29_LockedOnlyWithPin ==
  /\ []((appLock.isReady /\ appLock.isLocked) => appLock.hasPin)
  /\ [][(\/ appLock'.op = "lock" /\ ~appLock.hasPin
         \/ appLock'.op = "setPin" /\ appLock'.arg # PIN_LENGTH)
          => Shown(appLock') = Shown(appLock)
       ]_vars

(* lock() has been called on a ready provider whose PIN was removed, after *)
(* the app had been in the background                                      *)
C29_Witness ==
  /\ appLock.isReady
  /\ appLock.op = "lock"
  /\ ~appLock.hasPin
  /\ ~appLock.isLocked
  /\ appLock.lastBackgroundAt # 0
  /\ appLock.autoLockMinutes = NoAutoLock

----------------------------------------------------------------------------
(* AppState has just reported nextState on native *)
Changed(nextStates) ==
  /\ ~appLock.web
  /\ appLock'.appState # appLock.appState
  /\ appLock'.appState \in nextStates

(* C30: on native with a PIN and autoLockMinutes m >= 0, a change to       *)
(* active that comes at least m minutes after the last change to           *)
(* background or inactive leaves the app locked, and with m = 0 a change   *)
(* to background or inactive does; with no PIN or a negative               *)
(* autoLockMinutes no change of the app state changes isLocked.            *)
C30_AutoLockOnReturn ==
  /\ [][(/\ Changed({"active"})
         /\ appLock.hasPin
         /\ appLock.autoLockMinutes >= 0
         /\ now - appLock.leftAt >= appLock.autoLockMinutes * OneMinute)
          => appLock'.isLocked
       ]_vars
  /\ [][(Changed({"background", "inactive"}) /\ appLock.hasPin
           /\ appLock.autoLockMinutes = 0)
          => appLock'.isLocked
       ]_vars
  /\ [][(Changed(AppStates) /\ (~appLock.hasPin \/ appLock.autoLockMinutes < 0))
          => appLock'.isLocked = appLock.isLocked
       ]_vars

(* The app was unlocked, went to the background and is locked on its       *)
(* return, a minute or more later, with autoLockMinutes 1                  *)
C30_Witness ==
  /\ appLock.op = "active"
  /\ ~appLock.wasLocked
  /\ appLock.isLocked
  /\ appLock.autoLockMinutes = 1
  /\ now - appLock.leftAt >= OneMinute

====
